---- MODULE Spec2Model ----
(***************************************************************************)
(* A model of the bitarr crate: the BitStore / BitStoreMut storage traits  *)
(* (src/store.rs) for the native integer u8 and for arrays [T; N] of any   *)
(* storage T, the BitSet facade (src/lib.rs) and the Bits iterator         *)
(* (src/iter.rs).                                                          *)
(*                                                                         *)
(* A storage type is named by its shape, the sequence of its array         *)
(* lengths, outermost first: <<>> is u8, <<2>> is [u8; 2] and <<2, 2>> is  *)
(* [[u8; 2]; 2].  A value of shape <<>> is a number in 0 .. 2^8 - 1; a     *)
(* value of shape <<n>> \o T is a sequence of n values of shape T.         *)
(***************************************************************************)
EXTENDS Integers, Sequences, FiniteSets, TLC

\* core::mem::size_of::<u8>() * 8
U8_BITS == 8

\* the array length the storage tests instantiate: [$ty; 2]
ArrayN == 2

\* the number of facade operations in one run
MaxSteps == 1

\* how far past BITS the caller-supplied indices go
IndexSlack == 2

RECURSIVE Pow2(_)
Pow2(n) == IF n = 0 THEN 1 ELSE 2 * Pow2(n - 1)

\* u8::MAX, the all-ones value !0 of the native integer
UintMax == 255

RECURSIVE BitAnd(_, _, _)
BitAnd(x, y, w) ==
    IF w = 0 \/ x = 0 \/ y = 0 THEN 0
    ELSE (IF x % 2 = 1 /\ y % 2 = 1 THEN 1 ELSE 0)
         + 2 * BitAnd(x \div 2, y \div 2, w - 1)

RECURSIVE BitOr(_, _, _)
BitOr(x, y, w) ==
    IF w = 0 THEN 0
    ELSE (IF x % 2 = 1 \/ y % 2 = 1 THEN 1 ELSE 0)
         + 2 * BitOr(x \div 2, y \div 2, w - 1)

RECURSIVE BitXor(_, _, _)
BitXor(x, y, w) ==
    IF w = 0 THEN 0
    ELSE (IF (x % 2) # (y % 2) THEN 1 ELSE 0)
         + 2 * BitXor(x \div 2, y \div 2, w - 1)

\* !x on the native integer
BitNot(x) == UintMax - x

\* 1 << index on the native integer, for index < BITS
Shl1(index) == Pow2(index) % (UintMax + 1)

RECURSIVE SeqSum(_)
SeqSum(s) == IF s = <<>> THEN 0 ELSE Head(s) + SeqSum(Tail(s))

Reverse(s) == [k \in 1 .. Len(s) |-> s[Len(s) + 1 - k]]

(***************************************************************************)
(* impl_bitstore_uint!(u8)                                                 *)
(***************************************************************************)
uint_EMPTY == 0

uint_FULL == BitNot(0)

uint_get(self, index) == BitAnd(Shl1(index), self, U8_BITS) # 0

RECURSIVE uint_count_ones(_)
uint_count_ones(self) ==
    IF self = 0 THEN 0 ELSE (self % 2) + uint_count_ones(self \div 2)

RECURSIVE TrailingRun(_, _, _)
TrailingRun(x, bit, w) ==
    IF w = 0 \/ x % 2 # bit THEN 0 ELSE 1 + TrailingRun(x \div 2, bit, w - 1)

RECURSIVE LeadingRun(_, _, _)
LeadingRun(x, bit, w) ==
    IF w = 0 \/ (x \div Pow2(w - 1)) % 2 # bit THEN 0
    ELSE 1 + LeadingRun(x, bit, w - 1)

uint_trailing_zeros(self) == TrailingRun(self, 0, U8_BITS)

uint_trailing_ones(self) == TrailingRun(self, 1, U8_BITS)

uint_leading_zeros(self) == LeadingRun(self, 0, U8_BITS)

uint_leading_ones(self) == LeadingRun(self, 1, U8_BITS)

uint_is_empty(self) == self = 0

\* mutant of uint_is_full: the comparison is with 0
uint_is_full_of_zero(self) == self = 0

uint_is_full(self) == self = BitNot(0)

\* mutant of uint_set: `=` where the code has `|=`
uint_set_assigns(self, index) == Shl1(index)

uint_set(self, index) == BitOr(self, Shl1(index), U8_BITS)

uint_unset(self, index) == BitAnd(self, BitNot(Shl1(index)), U8_BITS)

uint_union_with(self, other) == BitOr(self, other, U8_BITS)

uint_intersect_with(self, other) == BitAnd(self, other, U8_BITS)

\* mutant of uint_difference_with: the `!` of `!*other` left out
uint_difference_with_no_not(self, other) == BitAnd(self, other, U8_BITS)

uint_difference_with(self, other) == BitAnd(self, BitNot(other), U8_BITS)

uint_symmetric_difference_with(self, other) == BitXor(self, other, U8_BITS)

uint_negate(self) == BitNot(self)

(***************************************************************************)
(* The traits BitStore and BitStoreMut, resolved on the shape S: the       *)
(* native implementation for <<>>, the array implementation otherwise.     *)
(***************************************************************************)
RECURSIVE BITS(_)
RECURSIVE BitStore_get(_, _, _)
RECURSIVE BitStore_count_ones(_, _)
RECURSIVE BitStore_trailing_zeros(_, _)
RECURSIVE BitStore_trailing_ones(_, _)
RECURSIVE BitStore_leading_zeros(_, _)
RECURSIVE BitStore_leading_ones(_, _)
RECURSIVE BitStoreMut_set(_, _, _)
RECURSIVE BitStoreMut_unset(_, _, _)
RECURSIVE BitStoreMut_union_with(_, _, _)
RECURSIVE BitStoreMut_intersect_with(_, _, _)
RECURSIVE BitStoreMut_difference_with(_, _, _)
RECURSIVE BitStoreMut_symmetric_difference_with(_, _, _)
RECURSIVE BitStoreMut_negate(_, _)
RECURSIVE BitStoreConst_EMPTY(_)
RECURSIVE BitStoreConst_FULL(_)

(***************************************************************************)
(* impl BitStoreConst / BitStore / BitStoreMut for [T; N], S = <<N>> \o T  *)
(***************************************************************************)
array_EMPTY(S) == [k \in 1 .. Head(S) |-> BitStoreConst_EMPTY(Tail(S))]

\* mutant of array_FULL: the elements are T::EMPTY
array_FULL_of_empty(S) == [k \in 1 .. Head(S) |-> BitStoreConst_EMPTY(Tail(S))]

array_FULL(S) == [k \in 1 .. Head(S) |-> BitStoreConst_FULL(Tail(S))]

array_BITS(S) == Head(S) * BITS(Tail(S))

\* (index / T::BITS, index % T::BITS)
array_split(S, index) ==
    [i |-> index \div BITS(Tail(S)), j |-> index % BITS(Tail(S))]

array_get(S, self, index) ==
    LET ij == array_split(S, index)
    IN  BitStore_get(Tail(S), self[ij.i + 1], ij.j)

\* mutant of array_count_ones: only the first element is counted
array_count_ones_first(S, self) == BitStore_count_ones(Tail(S), self[1])

array_count_ones(S, self) ==
    SeqSum([k \in 1 .. Len(self) |-> BitStore_count_ones(Tail(S), self[k])])

\* for run in runs { result += run; if run != T::BITS { break; } }
RECURSIVE array_run_loop(_, _, _, _)
array_run_loop(runs, k, result, TBITS) ==
    IF k > Len(runs) THEN result
    ELSE IF runs[k] # TBITS THEN result + runs[k]
    ELSE array_run_loop(runs, k + 1, result + runs[k], TBITS)

array_trailing_zeros(S, self) ==
    array_run_loop(
        [k \in 1 .. Len(self) |-> BitStore_trailing_zeros(Tail(S), self[k])],
        1, 0, BITS(Tail(S)))

array_trailing_ones(S, self) ==
    array_run_loop(
        [k \in 1 .. Len(self) |-> BitStore_trailing_ones(Tail(S), self[k])],
        1, 0, BITS(Tail(S)))

\* mutant of array_leading_zeros: the `.rev()` left out
array_leading_zeros_forward(S, self) ==
    array_run_loop(
        [k \in 1 .. Len(self) |-> BitStore_leading_zeros(Tail(S), self[k])],
        1, 0, BITS(Tail(S)))

array_leading_zeros(S, self) ==
    array_run_loop(
        [k \in 1 .. Len(self) |->
            BitStore_leading_zeros(Tail(S), Reverse(self)[k])],
        1, 0, BITS(Tail(S)))

array_leading_ones(S, self) ==
    array_run_loop(
        [k \in 1 .. Len(self) |->
            BitStore_leading_ones(Tail(S), Reverse(self)[k])],
        1, 0, BITS(Tail(S)))

array_set(S, self, index) ==
    LET ij == array_split(S, index)
    IN  [self EXCEPT ![ij.i + 1] = BitStoreMut_set(Tail(S), @, ij.j)]

array_unset(S, self, index) ==
    LET ij == array_split(S, index)
    IN  [self EXCEPT ![ij.i + 1] = BitStoreMut_unset(Tail(S), @, ij.j)]

array_union_with(S, self, other) ==
    [k \in 1 .. Len(self) |->
        BitStoreMut_union_with(Tail(S), self[k], other[k])]

array_intersect_with(S, self, other) ==
    [k \in 1 .. Len(self) |->
        BitStoreMut_intersect_with(Tail(S), self[k], other[k])]

array_difference_with(S, self, other) ==
    [k \in 1 .. Len(self) |->
        BitStoreMut_difference_with(Tail(S), self[k], other[k])]

array_symmetric_difference_with(S, self, other) ==
    [k \in 1 .. Len(self) |->
        BitStoreMut_symmetric_difference_with(Tail(S), self[k], other[k])]

\* mutant of array_negate: only the first element is negated
array_negate_first(S, self) ==
    [k \in 1 .. Len(self) |->
        IF k = 1 THEN BitStoreMut_negate(Tail(S), self[k]) ELSE self[k]]

array_negate(S, self) ==
    [k \in 1 .. Len(self) |-> BitStoreMut_negate(Tail(S), self[k])]

(***************************************************************************)
(* The trait methods.                                                      *)
(***************************************************************************)
BITS(S) == IF S = <<>> THEN U8_BITS ELSE array_BITS(S)

BitStoreConst_EMPTY(S) == IF S = <<>> THEN uint_EMPTY ELSE array_EMPTY(S)

BitStoreConst_FULL(S) == IF S = <<>> THEN uint_FULL ELSE array_FULL(S)

BitStore_get(S, self, index) ==
    IF S = <<>> THEN uint_get(self, index) ELSE array_get(S, self, index)

BitStore_count_ones(S, self) ==
    IF S = <<>> THEN uint_count_ones(self) ELSE array_count_ones(S, self)

BitStore_trailing_zeros(S, self) ==
    IF S = <<>> THEN uint_trailing_zeros(self)
    ELSE array_trailing_zeros(S, self)

BitStore_trailing_ones(S, self) ==
    IF S = <<>> THEN uint_trailing_ones(self)
    ELSE array_trailing_ones(S, self)

BitStore_leading_zeros(S, self) ==
    IF S = <<>> THEN uint_leading_zeros(self)
    ELSE array_leading_zeros(S, self)

BitStore_leading_ones(S, self) ==
    IF S = <<>> THEN uint_leading_ones(self)
    ELSE array_leading_ones(S, self)

\* the trait's default body, which the arrays keep: count_ones() == 0
default_is_empty(S, self) == BitStore_count_ones(S, self) = 0

\* the trait's default body, which the arrays keep: count_ones() == BITS
default_is_full(S, self) == BitStore_count_ones(S, self) = BITS(S)

BitStore_is_empty(S, self) ==
    IF S = <<>> THEN uint_is_empty(self) ELSE default_is_empty(S, self)

BitStore_is_full(S, self) ==
    IF S = <<>> THEN uint_is_full(self) ELSE default_is_full(S, self)

BitStoreMut_set(S, self, index) ==
    IF S = <<>> THEN uint_set(self, index) ELSE array_set(S, self, index)

BitStoreMut_unset(S, self, index) ==
    IF S = <<>> THEN uint_unset(self, index) ELSE array_unset(S, self, index)

BitStoreMut_union_with(S, self, other) ==
    IF S = <<>> THEN uint_union_with(self, other)
    ELSE array_union_with(S, self, other)

BitStoreMut_intersect_with(S, self, other) ==
    IF S = <<>> THEN uint_intersect_with(self, other)
    ELSE array_intersect_with(S, self, other)

BitStoreMut_difference_with(S, self, other) ==
    IF S = <<>> THEN uint_difference_with(self, other)
    ELSE array_difference_with(S, self, other)

BitStoreMut_symmetric_difference_with(S, self, other) ==
    IF S = <<>> THEN uint_symmetric_difference_with(self, other)
    ELSE array_symmetric_difference_with(S, self, other)

BitStoreMut_negate(S, self) ==
    IF S = <<>> THEN uint_negate(self) ELSE array_negate(S, self)

(***************************************************************************)
(* Option<T>: None is the empty sequence, Some(v) the sequence <<v>>.      *)
(***************************************************************************)
None == <<>>

Some(v) == <<v>>

(***************************************************************************)
(* BitSet<S> { bits: S }: the facade of src/lib.rs.  A mutating method is  *)
(* the pair of the storage it leaves in self.bits and the value it         *)
(* returns.                                                                *)
(***************************************************************************)
BitSet_empty(S) == BitStoreConst_EMPTY(S)

BitSet_full(S) == BitStoreConst_FULL(S)

BitSet_get(S, bits, index) ==
    IF index >= BITS(S) THEN None ELSE Some(BitStore_get(S, bits, index))

\* mutant of BitSet_set: the bit is read after it is set
BitSet_set_returns_new(S, bits, index) ==
    IF index >= BITS(S) THEN [bits |-> bits, ret |-> None]
    ELSE LET new == BitStoreMut_set(S, bits, index)
         IN  [bits |-> new, ret |-> Some(BitStore_get(S, new, index))]

BitSet_set(S, bits, index) ==
    IF index >= BITS(S) THEN [bits |-> bits, ret |-> None]
    ELSE LET old == BitStore_get(S, bits, index)
         IN  [bits |-> BitStoreMut_set(S, bits, index), ret |-> Some(old)]

\* mutant of BitSet_unset: the index wraps around instead of being refused
BitSet_unset_wrapping(S, bits, index) ==
    LET w == index % BITS(S)
    IN  [bits |-> BitStoreMut_unset(S, bits, w),
         ret |-> Some(BitStore_get(S, bits, w))]

BitSet_unset(S, bits, index) ==
    IF index >= BITS(S) THEN [bits |-> bits, ret |-> None]
    ELSE LET old == BitStore_get(S, bits, index)
         IN  [bits |-> BitStoreMut_unset(S, bits, index), ret |-> Some(old)]

BitSet_change(S, bits, index, value) ==
    IF value THEN BitSet_set(S, bits, index) ELSE BitSet_unset(S, bits, index)

\* mutant of BitSet_index: an index out of range reads as false
BitSet_index_lenient(S, bits, index) ==
    IF index >= BITS(S) THEN [panic |-> FALSE, ret |-> Some(FALSE)]
    ELSE [panic |-> FALSE, ret |-> Some(BitStore_get(S, bits, index))]

\* ops::Index<u32>: panic is TRUE when the call aborts, else ret is the bool
BitSet_index(S, bits, index) ==
    IF index >= BITS(S) THEN [panic |-> TRUE, ret |-> None]
    ELSE [panic |-> FALSE, ret |-> Some(BitStore_get(S, bits, index))]

BitSet_is_empty(S, bits) == BitStore_is_empty(S, bits)

BitSet_union_with(S, bits, other) == BitStoreMut_union_with(S, bits, other)

BitSet_intersect_with(S, bits, other) ==
    BitStoreMut_intersect_with(S, bits, other)

BitSet_difference_with(S, bits, other) ==
    BitStoreMut_difference_with(S, bits, other)

BitSet_symmetric_difference_with(S, bits, other) ==
    BitStoreMut_symmetric_difference_with(S, bits, other)

BitSet_negate(S, bits) == BitStoreMut_negate(S, bits)

\* let mut bits = self.bits.clone(); bits.intersect_with(&other.bits)
BitSet_intersection(S, bits, other) ==
    BitStoreMut_intersect_with(S, bits, other)

\* let mut bits = self.bits.clone(); bits.difference_with(&other.bits)
BitSet_difference(S, bits, other) ==
    BitStoreMut_difference_with(S, bits, other)

BitSet_is_subset(S, bits, other) ==
    BitSet_is_empty(S, BitSet_difference(S, bits, other))

\* mutant of BitSet_is_superset: the operands are not swapped
BitSet_is_superset_unswapped(S, bits, other) ==
    BitSet_is_subset(S, bits, other)

BitSet_is_superset(S, bits, other) == BitSet_is_subset(S, other, bits)

BitSet_is_disjoint(S, bits, other) ==
    BitSet_is_empty(S, BitSet_intersection(S, bits, other))

BitSet_new(S) == BitSet_empty(S)

\* <$ty as Default>::default(), which DefaultIsEmpty declares to be empty
uint_default == 0

RECURSIVE Default_default(_)
\* <[T; N] as Default>::default()
array_default(S) == [k \in 1 .. Head(S) |-> Default_default(Tail(S))]

\* S::default()
Default_default(S) == IF S = <<>> THEN uint_default ELSE array_default(S)

BitSet_default(S) == Default_default(S)

BitSet_is_full(S, bits) == BitStore_is_full(S, bits)

BitSet_any(S, bits) == ~BitStore_is_empty(S, bits)

\* impl_bitstore_ptr!(const) for &T, &mut T and Box<T>: count_ones forwards
\* to the pointee, is_empty and is_full are the default bodies of the trait
ptr_count_ones(S, self) == BitStore_count_ones(S, self)

ptr_is_empty(S, self) == ptr_count_ones(S, self) = 0

ptr_is_full(S, self) == ptr_count_ones(S, self) = BITS(S)

\* let mut bits = self.bits.clone(); bits.union_with(&other.bits)
BitSet_union(S, bits, other) == BitStoreMut_union_with(S, bits, other)

\* mutant of BitSet_symmetric_difference: the clone is united with other
BitSet_symmetric_difference_unites(S, bits, other) ==
    BitStoreMut_union_with(S, bits, other)

\* let mut bits = self.bits.clone();
\* bits.symmetric_difference_with(&other.bits)
BitSet_symmetric_difference(S, bits, other) ==
    BitStoreMut_symmetric_difference_with(S, bits, other)

\* let mut bits = self.bits.clone(); bits.negate()
BitSet_negation(S, bits) == BitStoreMut_negate(S, bits)

\* the operators: -a, a & b, a | b, a ^ b, a - b
Neg_neg(S, self) == BitSet_negation(S, self)

BitAnd_bitand(S, self, rhs) == BitSet_intersection(S, self, rhs)

BitOr_bitor(S, self, rhs) == BitSet_union(S, self, rhs)

BitXor_bitxor(S, self, rhs) == BitSet_symmetric_difference(S, self, rhs)

Sub_sub(S, self, rhs) == BitSet_difference(S, self, rhs)

\* the assigning operators: a &= b, a |= b, a ^= b, a -= b
BitAndAssign_bitand_assign(S, self, rhs) == BitSet_intersect_with(S, self, rhs)

BitOrAssign_bitor_assign(S, self, rhs) == BitSet_union_with(S, self, rhs)

BitXorAssign_bitxor_assign(S, self, rhs) ==
    BitSet_symmetric_difference_with(S, self, rhs)

SubAssign_sub_assign(S, self, rhs) == BitSet_difference_with(S, self, rhs)

\* mutant of fmt_separator: the test is bit % 4 == 0
fmt_separator_at_low_bit(bit) == IF bit % 4 = 0 THEN <<"_">> ELSE <<>>

\* if (bit + 1) % 4 == 0 { f.write_char('_') }
fmt_separator(bit) == IF (bit + 1) % 4 = 0 THEN <<"_">> ELSE <<>>

\* mutant of fmt_digit: the two digits are swapped
fmt_digit_swapped(value) == IF value THEN <<"0">> ELSE <<"1">>

\* if value { f.write_char('1') } else { f.write_char('0') }
fmt_digit(value) == IF value THEN <<"1">> ELSE <<"0">>

\* for bit in (0..S::BITS).rev(): the characters written for bit, bit - 1,
\* ..., 0
RECURSIVE fmt_loop(_, _, _)
fmt_loop(S, bits, bit) ==
    IF bit < 0 THEN <<>>
    ELSE fmt_separator(bit) \o fmt_digit(BitStore_get(S, bits, bit))
         \o fmt_loop(S, bits, bit - 1)

\* <BinaryDisplay<S> as fmt::Binary>::fmt: the characters written to f
BinaryDisplay_fmt(S, bits) == <<"0", "b">> \o fmt_loop(S, bits, BITS(S) - 1)

\* <BitSet<S> as fmt::Binary>::fmt and <BitSet<S> as fmt::Debug>::fmt
BitSet_fmt_binary(S, bits) == BinaryDisplay_fmt(S, bits)

BitSet_fmt_debug(S, bits) == BitSet_fmt_binary(S, bits)

(***************************************************************************)
(* The storage primitives get, set and unset and the _unchecked methods of *)
(* BitSet for any index, in range or not, under a build profile b: "debug" *)
(* has debug_assertions and overflow checks on, "release" has both off     *)
(* (the profiles of cargo).  Each returns whether the call aborted (panic) *)
(* and, when it did not, the value returned (ret) or the storage left      *)
(* (bits).                                                                 *)
(***************************************************************************)
\* 1 << index with overflow checks off: the shift amount wraps at BITS
Shl1_wrapping(index) == Pow2(index % U8_BITS)

\* mutant of uint_get_raw: the bound test is compiled into every build
uint_get_raw_always_checks(b, self, index) ==
    IF index >= U8_BITS
    THEN [panic |-> TRUE, ret |-> FALSE]
    ELSE [panic |-> FALSE,
          ret |-> BitAnd(Shl1_wrapping(index), self, U8_BITS) # 0]

\* #[cfg(debug_assertions)] if index >= Self::BITS { panic!(..) }
\* (1 << index) & *self != 0
uint_get_raw(b, self, index) ==
    IF b = "debug" /\ index >= U8_BITS
    THEN [panic |-> TRUE, ret |-> FALSE]
    ELSE [panic |-> FALSE,
          ret |-> BitAnd(Shl1_wrapping(index), self, U8_BITS) # 0]

\* *self |= 1 << index, after the same debug test
uint_set_raw(b, self, index) ==
    IF b = "debug" /\ index >= U8_BITS
    THEN [panic |-> TRUE, bits |-> self]
    ELSE [panic |-> FALSE, bits |-> BitOr(self, Shl1_wrapping(index), U8_BITS)]

\* *self &= !(1 << index), after the same debug test
uint_unset_raw(b, self, index) ==
    IF b = "debug" /\ index >= U8_BITS
    THEN [panic |-> TRUE, bits |-> self]
    ELSE [panic |-> FALSE,
          bits |-> BitAnd(self, BitNot(Shl1_wrapping(index)), U8_BITS)]

RECURSIVE BitStore_get_raw(_, _, _, _)
RECURSIVE BitStoreMut_set_raw(_, _, _, _)
RECURSIVE BitStoreMut_unset_raw(_, _, _, _)

\* self[i as usize].get(j): the indexing of the array panics when i >= N,
\* in every build
array_get_raw(b, shape, self, index) ==
    LET ij == array_split(shape, index)
    IN  IF ij.i >= Len(self)
        THEN [panic |-> TRUE, ret |-> FALSE]
        ELSE BitStore_get_raw(b, Tail(shape), self[ij.i + 1], ij.j)

\* self[i as usize].set(j)
array_set_raw(b, shape, self, index) ==
    LET ij == array_split(shape, index)
    IN  IF ij.i >= Len(self)
        THEN [panic |-> TRUE, bits |-> self]
        ELSE LET r == BitStoreMut_set_raw(b, Tail(shape), self[ij.i + 1], ij.j)
             IN  [panic |-> r.panic,
                  bits |-> [self EXCEPT ![ij.i + 1] = r.bits]]

\* self[i as usize].unset(j)
array_unset_raw(b, shape, self, index) ==
    LET ij == array_split(shape, index)
    IN  IF ij.i >= Len(self)
        THEN [panic |-> TRUE, bits |-> self]
        ELSE LET r == BitStoreMut_unset_raw(b, Tail(shape), self[ij.i + 1], ij.j)
             IN  [panic |-> r.panic,
                  bits |-> [self EXCEPT ![ij.i + 1] = r.bits]]

BitStore_get_raw(b, shape, self, index) ==
    IF shape = <<>> THEN uint_get_raw(b, self, index)
    ELSE array_get_raw(b, shape, self, index)

BitStoreMut_set_raw(b, shape, self, index) ==
    IF shape = <<>> THEN uint_set_raw(b, self, index)
    ELSE array_set_raw(b, shape, self, index)

BitStoreMut_unset_raw(b, shape, self, index) ==
    IF shape = <<>> THEN uint_unset_raw(b, self, index)
    ELSE array_unset_raw(b, shape, self, index)

\* self.bits.get(index)
BitSet_get_unchecked(b, shape, self, index) ==
    LET r == BitStore_get_raw(b, shape, self, index)
    IN  [panic |-> r.panic, bits |-> self,
         ret |-> IF r.panic THEN None ELSE Some(r.ret)]

\* let old = self.bits.get(index); self.bits.set(index); old
BitSet_set_unchecked(b, shape, self, index) ==
    LET old == BitStore_get_raw(b, shape, self, index)
        new == BitStoreMut_set_raw(b, shape, self, index)
    IN  IF old.panic \/ new.panic
        THEN [panic |-> TRUE, bits |-> self, ret |-> None]
        ELSE [panic |-> FALSE, bits |-> new.bits, ret |-> Some(old.ret)]

\* let old = self.bits.get(index); self.bits.unset(index); old
BitSet_unset_unchecked(b, shape, self, index) ==
    LET old == BitStore_get_raw(b, shape, self, index)
        new == BitStoreMut_unset_raw(b, shape, self, index)
    IN  IF old.panic \/ new.panic
        THEN [panic |-> TRUE, bits |-> self, ret |-> None]
        ELSE [panic |-> FALSE, bits |-> new.bits, ret |-> Some(old.ret)]

BitSet_change_unchecked(b, shape, self, index, value) ==
    IF value THEN BitSet_set_unchecked(b, shape, self, index)
    ELSE BitSet_unset_unchecked(b, shape, self, index)

(***************************************************************************)
(* The inputs of the runs.                                                 *)
(***************************************************************************)
\* the storage types: u8, [u8; 2], [[u8; 2]; 2]
Shapes == {<<>>, <<ArrayN>>, <<ArrayN, ArrayN>>}

\* the storage values handed to BitSet::from and passed as `other`, as
\* literals of each storage type, least significant element first.  With
\* B = BITS they are: no bit, every bit, the bits 0 .. B - 3 (a low run of
\* ones that crosses every element boundary), the bits 2 .. B - 1 (a high
\* run), the lone bit B - 2, and the two bits 3 and B - 4
Samples(shape) ==
    IF shape = <<>>
    THEN {0, 255, 63, 252, 64, 24}
    ELSE IF shape = <<ArrayN>>
    THEN {<<0, 0>>, <<255, 255>>, <<255, 63>>, <<252, 255>>, <<0, 64>>,
          <<8, 16>>}
    ELSE {<< <<0, 0>>, <<0, 0>> >>, << <<255, 255>>, <<255, 255>> >>,
          << <<255, 255>>, <<255, 63>> >>, << <<252, 255>>, <<255, 255>> >>,
          << <<0, 0>>, <<0, 64>> >>, << <<8, 0>>, <<0, 16>> >>}

\* caller-supplied indices, in range and out of range
Indices(S) == 0 .. BITS(S) + IndexSlack - 1

(***************************************************************************)
(* The program state: one BitSet<S> and the last call made on it.          *)
(*   S      the storage type parameter                                     *)
(*   bits   the field BitSet::bits                                         *)
(*   last   the last call: its name, its arguments, self.bits before it    *)
(*          (pre), the value it returned (ret), whether it aborted (panic) *)
(*   steps  the number of calls made                                       *)
(* and one Bits<S> iterator:                                               *)
(*   iter   its fields bits and range (start, end), and whether it is      *)
(*          unbuilt, live or aborted in construction (pc)                  *)
(*   given  the range handed to its constructor                            *)
(*   reads  for each index, how many times the iterator has read its bit   *)
(*   took   the last iterator call: its name, the index it read (idx, -1   *)
(*          when it read none) and the value it returned (ret)             *)
(* and the iterator of ones() / into_ones(), a FilterMap over an Enumerate *)
(* over the Bits<S> iterator:                                              *)
(*   count  the field Enumerate::count                                     *)
(*   yields for each index, how many times the iterator has yielded it     *)
(*   gave   the last call on it: its name, the value it returned (ret),    *)
(*          the constructor it came from (by), the highest index next()    *)
(*          has yielded (lo), the lowest next_back() has yielded (hi), and *)
(*          what lo or hi was before this call (was)                       *)
(* and the build profile of the program:                                   *)
(*   build  "debug" (debug_assertions on) or "release" (off)               *)
(***************************************************************************)
VARIABLES S, bits, last, steps, iter, given, reads, took, count, yields, gave,
          build

vars == <<S, bits, last, steps, iter, given, reads, took, count, yields, gave,
          build>>

setVars == <<S, bits, last, steps, build>>

iterVars == <<iter, given, reads, took>>

onesVars == <<count, yields, gave>>

Call(op, index, value, other, ret, panic) ==
    [op |-> op, index |-> index, value |-> value, other |-> other,
     pre |-> bits, ret |-> ret, panic |-> panic]

NoIter ==
    /\ iter = [pc |-> "unbuilt", bits |-> 0, start |-> 0, end |-> 0]
    /\ given = [start |-> 0, end |-> 0]
    /\ reads = <<>>
    /\ took = [op |-> "none", idx |-> -1, ret |-> None, after_none |-> FALSE]

NoOnes ==
    /\ count = 0
    /\ yields = <<>>
    /\ gave = [op |-> "none", ret |-> None, by |-> "none", lo |-> -1, hi |-> -1,
               was |-> -1]

\* the build profiles: cfg(debug_assertions) on or off
Builds == {"debug", "release"}

\* BitSet::empty(), BitSet::full() or BitSet::from(bits)
Init ==
    /\ S \in Shapes
    /\ bits \in {BitSet_empty(S), BitSet_full(S)} \cup Samples(S)
    /\ last = [op |-> "new", index |-> 0, value |-> FALSE, other |-> bits,
               pre |-> bits, ret |-> None, panic |-> FALSE]
    /\ steps = 0
    /\ NoIter
    /\ NoOnes
    /\ build = "debug"

\* the program runs on until a call aborts it
Running == steps < MaxSteps /\ ~last.panic

Step(newBits, call) ==
    /\ Running
    /\ bits' = newBits
    /\ last' = call
    /\ steps' = steps + 1
    /\ UNCHANGED <<S, build, iterVars, onesVars>>

\* the values passed as `other`: the samples and a copy of self
Others == Samples(S) \cup {bits}

get(index) ==
    Step(bits, Call("get", index, FALSE, bits, BitSet_get(S, bits, index), FALSE))

set(index) ==
    LET r == BitSet_set(S, bits, index)
    IN  Step(r.bits, Call("set", index, TRUE, bits, r.ret, FALSE))

unset(index) ==
    LET r == BitSet_unset(S, bits, index)
    IN  Step(r.bits, Call("unset", index, FALSE, bits, r.ret, FALSE))

change(index, value) ==
    LET r == BitSet_change(S, bits, index, value)
    IN  Step(r.bits, Call("change", index, value, bits, r.ret, FALSE))

index(i) ==
    LET r == BitSet_index(S, bits, i)
    IN  Step(bits, Call("index", i, FALSE, bits, r.ret, r.panic))

\* unsafe { x.set(i) } on the storage, under its safety condition i < BITS
store_set(i) ==
    /\ i < BITS(S)
    /\ Step(BitStoreMut_set(S, bits, i),
            Call("store_set", i, TRUE, bits, None, FALSE))

\* unsafe { x.unset(i) } on the storage, under its safety condition i < BITS
store_unset(i) ==
    /\ i < BITS(S)
    /\ Step(BitStoreMut_unset(S, bits, i),
            Call("store_unset", i, FALSE, bits, None, FALSE))

union_with(other) ==
    Step(BitSet_union_with(S, bits, other),
         Call("union_with", 0, FALSE, other, None, FALSE))

intersect_with(other) ==
    Step(BitSet_intersect_with(S, bits, other),
         Call("intersect_with", 0, FALSE, other, None, FALSE))

difference_with(other) ==
    Step(BitSet_difference_with(S, bits, other),
         Call("difference_with", 0, FALSE, other, None, FALSE))

symmetric_difference_with(other) ==
    Step(BitSet_symmetric_difference_with(S, bits, other),
         Call("symmetric_difference_with", 0, FALSE, other, None, FALSE))

negate ==
    Step(BitSet_negate(S, bits), Call("negate", 0, FALSE, bits, None, FALSE))

is_subset(other) ==
    Step(bits, Call("is_subset", 0, FALSE, other,
                    Some(BitSet_is_subset(S, bits, other)), FALSE))

is_superset(other) ==
    Step(bits, Call("is_superset", 0, FALSE, other,
                    Some(BitSet_is_superset(S, bits, other)), FALSE))

is_disjoint(other) ==
    Step(bits, Call("is_disjoint", 0, FALSE, other,
                    Some(BitSet_is_disjoint(S, bits, other)), FALSE))

count_ones ==
    Step(bits, Call("count_ones", 0, FALSE, bits,
                    Some(BitStore_count_ones(S, bits)), FALSE))

trailing_zeros ==
    Step(bits, Call("trailing_zeros", 0, FALSE, bits,
                    Some(BitStore_trailing_zeros(S, bits)), FALSE))

trailing_ones ==
    Step(bits, Call("trailing_ones", 0, FALSE, bits,
                    Some(BitStore_trailing_ones(S, bits)), FALSE))

leading_zeros ==
    Step(bits, Call("leading_zeros", 0, FALSE, bits,
                    Some(BitStore_leading_zeros(S, bits)), FALSE))

leading_ones ==
    Step(bits, Call("leading_ones", 0, FALSE, bits,
                    Some(BitStore_leading_ones(S, bits)), FALSE))

Next ==
    \/ \E i \in Indices(S) : get(i)
    \/ \E i \in Indices(S) : set(i)
    \/ \E i \in Indices(S) : unset(i)
    \/ \E i \in Indices(S), v \in BOOLEAN : change(i, v)
    \/ \E i \in Indices(S) : index(i)
    \/ \E i \in Indices(S) : store_set(i)
    \/ \E i \in Indices(S) : store_unset(i)
    \/ \E other \in Others : union_with(other)
    \/ \E other \in Others : intersect_with(other)
    \/ \E other \in Others : difference_with(other)
    \/ \E other \in Others : symmetric_difference_with(other)
    \/ negate
    \/ \E other \in Others : is_subset(other)
    \/ \E other \in Others : is_superset(other)
    \/ \E other \in Others : is_disjoint(other)
    \/ count_ones
    \/ trailing_zeros
    \/ trailing_ones
    \/ leading_zeros
    \/ leading_ones

Spec == Init /\ [][Next]_vars

(***************************************************************************)
(* Bits<S> { bits: S, range: Range<u32> }: the iterator of src/iter.rs.    *)
(* range is the pair of fields start and end of core::ops::Range<u32>.     *)
(***************************************************************************)
\* mutant of Range_next: start is not advanced
Range_next_stuck(range) ==
    IF range.start < range.end
    THEN [range |-> range, item |-> Some(range.start)]
    ELSE [range |-> range, item |-> None]

\* Range<u32>::next: start < end yields start and advances it
Range_next(range) ==
    IF range.start < range.end
    THEN [range |-> [range EXCEPT !.start = @ + 1], item |-> Some(range.start)]
    ELSE [range |-> range, item |-> None]

\* Range<u32>::next_back: start < end steps end back and yields it
Range_next_back(range) ==
    IF range.start < range.end
    THEN [range |-> [range EXCEPT !.end = @ - 1], item |-> Some(range.end - 1)]
    ELSE [range |-> range, item |-> None]

\* mutant of Range_len: end - start without the test start < end
Range_len_unguarded(range) == range.end - range.start

\* Range<u32>::len, and both bounds of Range<u32>::size_hint
Range_len(range) ==
    IF range.start < range.end THEN range.end - range.start ELSE 0

\* Bits::new: range 0 .. S::BITS
Bits_new(shape, b) ==
    [pc |-> "live", bits |-> b, start |-> 0, end |-> BITS(shape)]

\* mutant of Bits_with_range: the test is made on range.start
Bits_with_range_tests_start(shape, b, range) ==
    IF range.start > BITS(shape)
    THEN [pc |-> "aborted", bits |-> b, start |-> range.start, end |-> range.end]
    ELSE [pc |-> "live", bits |-> b, start |-> range.start, end |-> range.end]

\* Bits::with_range: panics when range.end > S::BITS
Bits_with_range(shape, b, range) ==
    IF range.end > BITS(shape)
    THEN [pc |-> "aborted", bits |-> b, start |-> range.start, end |-> range.end]
    ELSE [pc |-> "live", bits |-> b, start |-> range.start, end |-> range.end]

\* self.range.next().map(|i| self.bits.get(i)): the iterator it leaves,
\* the item it returns and the index i whose bit it read (-1 for none)
Bits_next(shape, it) ==
    LET r == Range_next([start |-> it.start, end |-> it.end])
    IN  [iter |-> [it EXCEPT !.start = r.range.start, !.end = r.range.end],
         idx  |-> IF r.item = None THEN -1 ELSE r.item[1],
         ret  |-> IF r.item = None THEN None
                  ELSE Some(BitStore_get(shape, it.bits, r.item[1]))]

Bits_next_back(shape, it) ==
    LET r == Range_next_back([start |-> it.start, end |-> it.end])
    IN  [iter |-> [it EXCEPT !.start = r.range.start, !.end = r.range.end],
         idx  |-> IF r.item = None THEN -1 ELSE r.item[1],
         ret  |-> IF r.item = None THEN None
                  ELSE Some(BitStore_get(shape, it.bits, r.item[1]))]

Bits_len(it) == Range_len([start |-> it.start, end |-> it.end])

Bits_size_hint(it) ==
    LET n == Range_len([start |-> it.start, end |-> it.end])
    IN  <<n, Some(n)>>

\* the storage types the iterator runs are made over: u8 and [u8; 2]
IterShapes == {<<>>, <<ArrayN>>}

InitIter ==
    /\ S \in IterShapes
    /\ bits \in Samples(S)
    /\ last = [op |-> "new", index |-> 0, value |-> FALSE, other |-> bits,
               pre |-> bits, ret |-> None, panic |-> FALSE]
    /\ steps = 0
    /\ NoIter
    /\ NoOnes
    /\ build = "debug"

Built(it, range) ==
    /\ iter.pc = "unbuilt"
    /\ iter' = it
    /\ given' = range
    /\ reads' = [i \in 0 .. BITS(S) - 1 |-> 0]
    /\ took' = [op |-> "built", idx |-> -1, ret |-> None, after_none |-> FALSE]
    /\ UNCHANGED <<setVars, onesVars>>

new ==
    Built(Bits_new(S, bits), [start |-> 0, end |-> BITS(S)])

with_range(start, end) ==
    Built(Bits_with_range(S, bits, [start |-> start, end |-> end]),
          [start |-> start, end |-> end])

\* a call of next or next_back that returned r
Took(op, r) ==
    /\ iter' = r.iter
    /\ reads' = IF r.idx \in DOMAIN reads
                THEN [reads EXCEPT ![r.idx] = @ + 1] ELSE reads
    /\ took' = [op |-> op, idx |-> r.idx, ret |-> r.ret,
                after_none |-> took.after_none
                               \/ (took.op \in {"next", "next_back"}
                                   /\ took.ret = None)]
    /\ UNCHANGED <<given, setVars, onesVars>>

next ==
    /\ iter.pc = "live"
    /\ Took("next", Bits_next(S, iter))

next_back ==
    /\ iter.pc = "live"
    /\ Took("next_back", Bits_next_back(S, iter))

\* a call that reads the remaining length
Measured(op, ret) ==
    /\ iter.pc = "live"
    /\ took' = [op |-> op, idx |-> -1, ret |-> ret,
                after_none |-> took.after_none
                               \/ (took.op \in {"next", "next_back"}
                                   /\ took.ret = None)]
    /\ UNCHANGED <<iter, given, reads, setVars, onesVars>>

len == Measured("len", Some(Bits_len(iter)))

size_hint == Measured("size_hint", Bits_size_hint(iter))

NextIter ==
    \/ new
    \/ \E start \in Indices(S), end \in Indices(S) : with_range(start, end)
    \/ next
    \/ next_back
    \/ len
    \/ size_hint

SpecIter == InitIter /\ [][NextIter]_vars

(***************************************************************************)
(* BitSet::ones / BitSet::into_ones:                                       *)
(*   self.iter().enumerate().filter_map(|(i, b)| b.then_some(i as u32))    *)
(***************************************************************************)
\* Enumerate<Bits<S>>::next: the item (count, bit), and count += 1
Enumerate_next(shape, it, n) ==
    LET r == Bits_next(shape, it)
    IN  IF r.ret = None
        THEN [iter |-> r.iter, count |-> n, item |-> None]
        ELSE [iter |-> r.iter, count |-> n + 1, item |-> Some(<<n, r.ret[1]>>)]

\* mutant of Enumerate_next_back: the index is len, without count
Enumerate_next_back_no_count(shape, it, n) ==
    LET r == Bits_next_back(shape, it)
    IN  IF r.ret = None
        THEN [iter |-> r.iter, count |-> n, item |-> None]
        ELSE [iter |-> r.iter, count |-> n,
              item |-> Some(<<Bits_len(r.iter), r.ret[1]>>)]

\* Enumerate<Bits<S>>::next_back: the item (count + len, bit), len being
\* the length of the inner iterator after its next_back
Enumerate_next_back(shape, it, n) ==
    LET r == Bits_next_back(shape, it)
    IN  IF r.ret = None
        THEN [iter |-> r.iter, count |-> n, item |-> None]
        ELSE [iter |-> r.iter, count |-> n,
              item |-> Some(<<n + Bits_len(r.iter), r.ret[1]>>)]

\* FilterMap::next with |(i, b)| b.then_some(i as u32): the index of the
\* first item from the front whose bit is on
RECURSIVE Ones_next(_, _, _)
Ones_next(shape, it, n) ==
    LET e == Enumerate_next(shape, it, n)
    IN  IF e.item = None
        THEN [iter |-> e.iter, count |-> e.count, ret |-> None]
        ELSE IF e.item[1][2]
        THEN [iter |-> e.iter, count |-> e.count, ret |-> Some(e.item[1][1])]
        ELSE Ones_next(shape, e.iter, e.count)

\* FilterMap::next_back: the index of the first item from the back whose
\* bit is on
RECURSIVE Ones_next_back(_, _, _)
Ones_next_back(shape, it, n) ==
    LET e == Enumerate_next_back(shape, it, n)
    IN  IF e.item = None
        THEN [iter |-> e.iter, count |-> e.count, ret |-> None]
        ELSE IF e.item[1][2]
        THEN [iter |-> e.iter, count |-> e.count, ret |-> Some(e.item[1][1])]
        ELSE Ones_next_back(shape, e.iter, e.count)

\* a BitSet built by empty(), full() or from(bits), with no call made on it
InitOnes ==
    /\ S \in Shapes
    /\ bits \in {BitSet_empty(S), BitSet_full(S)} \cup Samples(S)
    /\ last = [op |-> "new", index |-> 0, value |-> FALSE, other |-> bits,
               pre |-> bits, ret |-> None, panic |-> FALSE]
    /\ steps = 0
    /\ NoIter
    /\ NoOnes
    /\ build = "debug"

\* the iterator chain is built over Bits::new(bits)
OnesBuilt(by) ==
    /\ gave.op = "none"
    /\ iter' = Bits_new(S, bits)
    /\ count' = 0
    /\ yields' = [i \in 0 .. BITS(S) - 1 |-> 0]
    /\ gave' = [op |-> by, ret |-> None, by |-> by, lo |-> -1, hi |-> BITS(S),
                was |-> -1]
    /\ UNCHANGED <<setVars, given, reads, took>>

\* ones(&self): iterates over a reference to self.bits
ones == OnesBuilt("ones")

\* into_ones(self): iterates over self.bits moved into the iterator
into_ones == OnesBuilt("into_ones")

\* a call of next or next_back on the iterator of ones that returned r
Gave(op, r) ==
    /\ gave.op # "none"
    /\ iter' = r.iter
    /\ count' = r.count
    /\ yields' = IF r.ret # None /\ r.ret[1] \in DOMAIN yields
                 THEN [yields EXCEPT ![r.ret[1]] = @ + 1] ELSE yields
    /\ gave' = [op |-> op, ret |-> r.ret, by |-> gave.by,
                lo |-> IF op = "next" /\ r.ret # None THEN r.ret[1] ELSE gave.lo,
                hi |-> IF op = "next_back" /\ r.ret # None THEN r.ret[1]
                       ELSE gave.hi,
                was |-> IF op = "next" THEN gave.lo ELSE gave.hi]
    /\ UNCHANGED <<setVars, given, reads, took>>

ones_next == Gave("next", Ones_next(S, iter, count))

ones_next_back == Gave("next_back", Ones_next_back(S, iter, count))

NextOnes ==
    \/ ones
    \/ into_ones
    \/ ones_next
    \/ ones_next_back

SpecOnes == InitOnes /\ [][NextOnes]_vars

(***************************************************************************)
(* The unchecked calls.                                                    *)
(***************************************************************************)
\* the storage values the unchecked calls are made on: no bit, every bit,
\* and the two bits 3 and B - 4
UncheckedSamples(shape) ==
    {BitSet_empty(shape), BitSet_full(shape)}
    \cup {v \in Samples(shape) : BitStore_count_ones(shape, v) = 2}

InitUnchecked ==
    /\ S \in Shapes
    /\ bits \in UncheckedSamples(S)
    /\ last = [op |-> "new", index |-> 0, value |-> FALSE, other |-> bits,
               pre |-> bits, ret |-> None, panic |-> FALSE]
    /\ steps = 0
    /\ NoIter
    /\ NoOnes
    /\ build \in Builds

\* a call with index that gave r: it leaves r.bits unless it aborted
Unchecked(op, i, value, r) ==
    Step(IF r.panic THEN bits ELSE r.bits,
         Call(op, i, value, bits, r.ret, r.panic))

get_unchecked(i) ==
    Unchecked("get_unchecked", i, FALSE, BitSet_get_unchecked(build, S, bits, i))

set_unchecked(i) ==
    Unchecked("set_unchecked", i, TRUE, BitSet_set_unchecked(build, S, bits, i))

unset_unchecked(i) ==
    Unchecked("unset_unchecked", i, FALSE,
              BitSet_unset_unchecked(build, S, bits, i))

change_unchecked(i, value) ==
    Unchecked("change_unchecked", i, value,
              BitSet_change_unchecked(build, S, bits, i, value))

\* unsafe { BitStore::get(&x, i) } on the storage, for any i
raw_get(i) ==
    LET r == BitStore_get_raw(build, S, bits, i)
    IN  Unchecked("raw_get", i, FALSE,
                  [panic |-> r.panic, bits |-> bits,
                   ret |-> IF r.panic THEN None ELSE Some(r.ret)])

\* unsafe { BitStoreMut::set(&mut x, i) } on the storage, for any i
raw_set(i) ==
    LET r == BitStoreMut_set_raw(build, S, bits, i)
    IN  Unchecked("raw_set", i, TRUE,
                  [panic |-> r.panic, bits |-> r.bits, ret |-> None])

\* unsafe { BitStoreMut::unset(&mut x, i) } on the storage, for any i
raw_unset(i) ==
    LET r == BitStoreMut_unset_raw(build, S, bits, i)
    IN  Unchecked("raw_unset", i, FALSE,
                  [panic |-> r.panic, bits |-> r.bits, ret |-> None])

NextUnchecked ==
    \/ \E i \in Indices(S) : get_unchecked(i)
    \/ \E i \in Indices(S) : set_unchecked(i)
    \/ \E i \in Indices(S) : unset_unchecked(i)
    \/ \E i \in Indices(S), v \in BOOLEAN : change_unchecked(i, v)
    \/ \E i \in Indices(S) : raw_get(i)
    \/ \E i \in Indices(S) : raw_set(i)
    \/ \E i \in Indices(S) : raw_unset(i)

SpecUnchecked == InitUnchecked /\ [][NextUnchecked]_vars

(***************************************************************************)
(* The constructors, the pure methods, the operators, the emptiness tests  *)
(* and the formatters of BitSet<S>.                                        *)
(***************************************************************************)
\* the constructors of BitSet: new, empty, default, full and From<S>
Constructors == {"new", "empty", "default", "full", "from"}

\* the array the formatter's test formats: [0u8; 2] with set(2) and set(12)
FmtSample == <<4, 16>>

\* the value each constructor can build
Constructed(shape, ctor) ==
    CASE ctor = "new" -> {BitSet_new(shape)}
      [] ctor = "empty" -> {BitSet_empty(shape)}
      [] ctor = "default" -> {BitSet_default(shape)}
      [] ctor = "full" -> {BitSet_full(shape)}
      [] ctor = "from" ->
            Samples(shape) \cup (IF shape = <<ArrayN>> THEN {FmtSample} ELSE {})

\* a BitSet fresh from one of its constructors, whose name last.op keeps
InitOps ==
    /\ S \in Shapes
    /\ \E ctor \in Constructors :
          /\ bits \in Constructed(S, ctor)
          /\ last = [op |-> ctor, index |-> 0, value |-> FALSE, other |-> bits,
                     pre |-> bits, ret |-> None, panic |-> FALSE]
    /\ steps = 0
    /\ NoIter
    /\ NoOnes
    /\ build = "debug"

\* a call that returns ret and leaves self as it is
Pure(op, other, ret) == Step(bits, Call(op, 0, FALSE, other, Some(ret), FALSE))

union(other) == Pure("union", other, BitSet_union(S, bits, other))

intersection(other) ==
    Pure("intersection", other, BitSet_intersection(S, bits, other))

difference(other) ==
    Pure("difference", other, BitSet_difference(S, bits, other))

symmetric_difference(other) ==
    Pure("symmetric_difference", other,
         BitSet_symmetric_difference(S, bits, other))

negation == Pure("negation", bits, BitSet_negation(S, bits))

\* the operators take copies of their operands (BitSet<S> is Copy for the
\* storage types here) and return the result
neg == Pure("neg", bits, Neg_neg(S, bits))

bitand(rhs) == Pure("bitand", rhs, BitAnd_bitand(S, bits, rhs))

bitor(rhs) == Pure("bitor", rhs, BitOr_bitor(S, bits, rhs))

bitxor(rhs) == Pure("bitxor", rhs, BitXor_bitxor(S, bits, rhs))

sub(rhs) == Pure("sub", rhs, Sub_sub(S, bits, rhs))

bitand_assign(rhs) ==
    Step(BitAndAssign_bitand_assign(S, bits, rhs),
         Call("bitand_assign", 0, FALSE, rhs, None, FALSE))

bitor_assign(rhs) ==
    Step(BitOrAssign_bitor_assign(S, bits, rhs),
         Call("bitor_assign", 0, FALSE, rhs, None, FALSE))

bitxor_assign(rhs) ==
    Step(BitXorAssign_bitxor_assign(S, bits, rhs),
         Call("bitxor_assign", 0, FALSE, rhs, None, FALSE))

sub_assign(rhs) ==
    Step(SubAssign_sub_assign(S, bits, rhs),
         Call("sub_assign", 0, FALSE, rhs, None, FALSE))

is_empty == Pure("is_empty", bits, BitSet_is_empty(S, bits))

is_full == Pure("is_full", bits, BitSet_is_full(S, bits))

any == Pure("any", bits, BitSet_any(S, bits))

\* is_empty and is_full of a BitSet over &S, &mut S or Box<S>
wrapped_is_empty == Pure("wrapped_is_empty", bits, ptr_is_empty(S, bits))

wrapped_is_full == Pure("wrapped_is_full", bits, ptr_is_full(S, bits))

fmt_binary == Pure("fmt_binary", bits, BitSet_fmt_binary(S, bits))

fmt_debug == Pure("fmt_debug", bits, BitSet_fmt_debug(S, bits))

NextOps ==
    \/ \E other \in Others : union(other)
    \/ \E other \in Others : intersection(other)
    \/ \E other \in Others : difference(other)
    \/ \E other \in Others : symmetric_difference(other)
    \/ negation
    \/ negate
    \/ neg
    \/ \E rhs \in Others : bitand(rhs)
    \/ \E rhs \in Others : bitor(rhs)
    \/ \E rhs \in Others : bitxor(rhs)
    \/ \E rhs \in Others : sub(rhs)
    \/ \E rhs \in Others : bitand_assign(rhs)
    \/ \E rhs \in Others : bitor_assign(rhs)
    \/ \E rhs \in Others : bitxor_assign(rhs)
    \/ \E rhs \in Others : sub_assign(rhs)
    \/ is_empty
    \/ is_full
    \/ any
    \/ wrapped_is_empty
    \/ wrapped_is_full
    \/ fmt_binary
    \/ fmt_debug

SpecOps == InitOps /\ [][NextOps]_vars

(***************************************************************************)
(* The properties.                                                         *)
(***************************************************************************)
\* the valid indices of the storage type
InRange == 0 .. BITS(S) - 1

\* the bit of value v at index i, read as the storage trait reads it
Bit(v, i) == BitStore_get(S, v, i)

\* the indices whose bit is one
Ones(v) == {i \in InRange : Bit(v, i)}

\* C1: for every storage type and every i < BITS, after the storage
\* primitive set(i) the bit i is true, after unset(i) it is false, and in
\* both cases every other bit is what it was before the call.
C1_SetUnsetFrame ==
    /\ last.op = "store_set" =>
          /\ Bit(bits, last.index)
          /\ \A j \in InRange \ {last.index} : Bit(bits, j) = Bit(last.pre, j)
    /\ last.op = "store_unset" =>
          /\ ~Bit(bits, last.index)
          /\ \A j \in InRange \ {last.index} : Bit(bits, j) = Bit(last.pre, j)

\* a set(i) on an array of arrays that turned on a bit of its last element
\* while other bits were on
C1_Witness ==
    /\ last.op = "store_set"
    /\ S = <<ArrayN, ArrayN>>
    /\ last.index >= BITS(S) - U8_BITS
    /\ ~Bit(last.pre, last.index)
    /\ Ones(last.pre) # {}

\* C2: for i < BITS, BitSet::set(i), unset(i) and change(i, v) return
\* Some(old), old being bit i before the call, and leave get(i) at
\* Some(true), Some(false) and Some(v); change(i, true) returns and leaves
\* what set(i) does, change(i, false) what unset(i) does.
C2_SetReturnsOld ==
    (last.op \in {"set", "unset", "change"} /\ last.index < BITS(S)) =>
        /\ last.ret = Some(Bit(last.pre, last.index))
        /\ BitSet_get(S, bits, last.index) = Some(last.value)
        /\ (last.op = "change" /\ last.value) =>
              /\ bits = BitSet_set(S, last.pre, last.index).bits
              /\ last.ret = BitSet_set(S, last.pre, last.index).ret
        /\ (last.op = "change" /\ ~last.value) =>
              /\ bits = BitSet_unset(S, last.pre, last.index).bits
              /\ last.ret = BitSet_unset(S, last.pre, last.index).ret

\* a change(i, false) that cleared a bit that was on
C2_Witness ==
    /\ last.op = "change"
    /\ ~last.value
    /\ last.index < BITS(S)
    /\ last.ret = Some(TRUE)
    /\ bits # last.pre

\* C3: for an index >= BITS, BitSet::get, set, unset and change return
\* None, do not abort and leave every bit as it was.
C3_OutOfRangeIsNone ==
    (last.op \in {"get", "set", "unset", "change"} /\ last.index >= BITS(S)) =>
        /\ last.ret = None
        /\ ~last.panic
        /\ bits = last.pre

\* a set(BITS) on a set that is neither empty nor full
C3_Witness ==
    /\ last.op = "set"
    /\ last.index = BITS(S)
    /\ last.ret = None
    /\ Ones(bits) \notin {{}, InRange}

\* C4: bitset[i] aborts exactly when i >= BITS; for i < BITS it returns
\* the boolean that get(i) returns; it never changes the set.
C4_IndexPanicsIffOutOfRange ==
    last.op = "index" =>
        /\ last.panic <=> last.index >= BITS(S)
        /\ ~last.panic => last.ret = BitSet_get(S, last.pre, last.index)
        /\ ~last.panic => last.ret # None
        /\ bits = last.pre

\* bitset[BITS] aborted
C4_Witness ==
    /\ last.op = "index"
    /\ last.index = BITS(S)
    /\ last.panic

C6_Relations ==
    /\ last.op = "is_subset" =>
          /\ last.ret = Some(Ones(last.pre) \subseteq Ones(last.other))
          /\ bits = last.pre
    /\ last.op = "is_superset" =>
          /\ last.ret = Some(Ones(last.other) \subseteq Ones(last.pre))
          /\ last.ret = Some(BitSet_is_subset(S, last.other, last.pre))
          /\ bits = last.pre
    /\ last.op = "is_disjoint" =>
          /\ last.ret = Some(Ones(last.pre) \cap Ones(last.other) = {})
          /\ bits = last.pre

\* is_superset said no of a one-bit set and a proper superset of it
C6_Witness ==
    /\ last.op = "is_superset"
    /\ last.ret = Some(FALSE)
    /\ Cardinality(Ones(last.pre)) = 1
    /\ Ones(last.pre) \subseteq Ones(last.other)

\* C7: in every reachable state count_ones() is the number of indices
\* i < BITS whose bit is on, for u8 and for arrays, and a call of
\* count_ones returns that number.
C7_CountOnes ==
    /\ BitStore_count_ones(S, bits) = Cardinality(Ones(bits))
    /\ last.op = "count_ones" => last.ret = Some(Cardinality(Ones(last.pre)))

\* count_ones counted bits of more than one element of an array
C7_Witness ==
    /\ last.op = "count_ones"
    /\ S # <<>>
    /\ last.ret = Some(BITS(S) - 2)

\* the length of the run of bits equal to b that starts at index i and
\* goes on by step, found by reading one bit after the other
RECURSIVE ScanRun(_, _, _, _)
ScanRun(v, i, step, b) ==
    IF i \notin InRange \/ Bit(v, i) # b THEN 0
    ELSE 1 + ScanRun(v, i + step, step, b)

\* C8: trailing_zeros / trailing_ones are the length of the run of 0 / 1
\* bits that starts at index 0 and goes up, leading_zeros / leading_ones
\* the length of the run that starts at index BITS - 1 and goes down, as a
\* scan of the bits finds them, across the element boundaries of arrays.
C8_RunsMatchScan ==
    /\ BitStore_trailing_zeros(S, bits) = ScanRun(bits, 0, 1, FALSE)
    /\ BitStore_trailing_ones(S, bits) = ScanRun(bits, 0, 1, TRUE)
    /\ BitStore_leading_zeros(S, bits) = ScanRun(bits, BITS(S) - 1, -1, FALSE)
    /\ BitStore_leading_ones(S, bits) = ScanRun(bits, BITS(S) - 1, -1, TRUE)
    /\ last.op = "trailing_zeros" =>
          last.ret = Some(ScanRun(last.pre, 0, 1, FALSE))
    /\ last.op = "trailing_ones" =>
          last.ret = Some(ScanRun(last.pre, 0, 1, TRUE))
    /\ last.op = "leading_zeros" =>
          last.ret = Some(ScanRun(last.pre, BITS(S) - 1, -1, FALSE))
    /\ last.op = "leading_ones" =>
          last.ret = Some(ScanRun(last.pre, BITS(S) - 1, -1, TRUE))

\* trailing_zeros of an array of arrays with one bit on, in its last
\* element: the run crosses every element boundary
C8_Witness ==
    /\ last.op = "trailing_zeros"
    /\ S = <<ArrayN, ArrayN>>
    /\ Cardinality(Ones(last.pre)) = 1
    /\ last.ret = Some(BITS(S) - 2)
    /\ BitStore_leading_zeros(S, bits) = 1

\* the indices of the range the iterator was built over
Given == given.start .. given.end - 1

\* the indices of that range the iterator has not read yet
Unread == {i \in Given : reads[i] = 0}

\* C9: under every interleaving of next() and next_back() on an iterator
\* over an accepted range, no index is read twice, none outside the range
\* is read, next() yields the bit at the lowest index not read before it and
\* next_back() the bit at the highest, and the iterator runs out only when
\* every index of the range has been read once.
C9_EachIndexOnce ==
    iter.pc = "live" =>
        /\ \A i \in DOMAIN reads : reads[i] <= 1 /\ (reads[i] = 1 => i \in Given)
        /\ took.idx # -1 => took.idx \in Given
        /\ (took.op = "next" /\ took.ret # None) =>
              /\ reads[took.idx] = 1
              /\ \A j \in Given : j < took.idx => reads[j] = 1
              /\ took.ret = Some(Bit(iter.bits, took.idx))
        /\ (took.op = "next_back" /\ took.ret # None) =>
              /\ reads[took.idx] = 1
              /\ \A j \in Given : j > took.idx => reads[j] = 1
              /\ took.ret = Some(Bit(iter.bits, took.idx))
        /\ (took.op \in {"next", "next_back"} /\ took.ret = None) =>
              \A i \in Given : reads[i] = 1

\* a next_back() that yielded a one bit after a next(), on an iterator over
\* a range of an array that starts after index 0 and ends before BITS
C9_Witness ==
    /\ iter.pc = "live"
    /\ S = <<ArrayN>>
    /\ given.start > 0
    /\ given.end < BITS(S)
    /\ iter.start > given.start
    /\ took.op = "next_back"
    /\ took.ret = Some(TRUE)
    /\ Unread # {}

\* C10: at every step of any interleaving of next() and next_back(), len()
\* and both bounds of size_hint() are the number of indices of the range
\* not yet yielded; once a call has returned None, every later next() and
\* next_back() returns None and len() stays 0.
C10_ExactLenAndFused ==
    iter.pc = "live" =>
        /\ Bits_len(iter) = Cardinality(Unread)
        /\ Bits_size_hint(iter) = <<Cardinality(Unread), Some(Cardinality(Unread))>>
        /\ took.op = "len" => took.ret = Some(Cardinality(Unread))
        /\ took.op = "size_hint" =>
              took.ret = <<Cardinality(Unread), Some(Cardinality(Unread))>>
        /\ took.after_none =>
              /\ took.op \in {"next", "next_back"} => took.ret = None
              /\ Bits_len(iter) = 0

\* a next() that returned None after an earlier call had returned None, on
\* an iterator that had yielded bits from both ends
C10_Witness ==
    /\ iter.pc = "live"
    /\ took.after_none
    /\ took.op = "next"
    /\ took.ret = None
    /\ iter.start > given.start
    /\ iter.end < given.end

\* C11: Bits::with_range aborts in construction exactly when the end of the
\* range is above BITS; an iterator over a range it accepted, a range with
\* start > end or start >= BITS included, never reads a bit at an index
\* >= BITS through next() or next_back(), and an aborted construction
\* leaves no iterator that reads at all.
C11_RangeCheckedAtConstruction ==
    iter.pc # "unbuilt" =>
        /\ iter.pc = "aborted" <=> given.end > BITS(S)
        /\ took.idx < BITS(S)
        /\ iter.end <= BITS(S) \/ iter.pc = "aborted"
        /\ \A i \in DOMAIN reads : reads[i] > 0 => iter.pc = "live"
        /\ (given.start >= given.end \/ given.start >= BITS(S)) =>
              \A i \in DOMAIN reads : reads[i] = 0

\* a next_back() that returned None on an iterator over an accepted range
\* whose start is above its end and above BITS
C11_Witness ==
    /\ iter.pc = "live"
    /\ given.start > BITS(S)
    /\ given.start > given.end
    /\ given.end > 0
    /\ took.op = "next_back"
    /\ took.ret = None

\* the indices the iterator of ones has yielded
Yielded == {i \in DOMAIN yields : yields[i] > 0}

\* C12: the iterator of ones() and of into_ones() yields only indices whose
\* bit is on and none twice; next() yields the lowest one not yielded yet,
\* above everything next() yielded before, next_back() the highest one not
\* yielded yet, below everything next_back() yielded before; under any mix
\* of the two it runs out only when every index whose bit is on has been
\* yielded once; the set is left as it was.
C12_OnesYieldsSetIndices ==
    gave.op # "none" =>
        /\ \A i \in DOMAIN yields : yields[i] <= 1
        /\ Yielded \subseteq Ones(bits)
        /\ (gave.op = "next" /\ gave.ret # None) =>
              /\ gave.ret[1] \in Yielded
              /\ gave.ret[1] > gave.was
              /\ \A j \in Ones(bits) : j < gave.ret[1] => j \in Yielded
        /\ (gave.op = "next_back" /\ gave.ret # None) =>
              /\ gave.ret[1] \in Yielded
              /\ gave.ret[1] < gave.was
              /\ \A j \in Ones(bits) : j > gave.ret[1] => j \in Yielded
        /\ (gave.op \in {"next", "next_back"} /\ gave.ret = None) =>
              Yielded = Ones(bits)
        /\ bits = last.pre
        /\ iter.bits = bits

\* a next_back() of ones() on an array that yielded an index after next()
\* had yielded two, with ones still to come and zeros skipped
C12_Witness ==
    /\ gave.by = "ones"
    /\ S = <<ArrayN>>
    /\ gave.op = "next_back"
    /\ gave.ret # None
    /\ count >= 2
    /\ Cardinality(Yielded) >= 3
    /\ Yielded # Ones(bits)
    /\ Ones(bits) # InRange

\* C13: negate() turns every bit into its opposite; a second negate() gives
\* back the value before the first; negate() of EMPTY gives FULL, a full
\* set, and negate() of FULL gives EMPTY, an empty one.
C13_NegateFlipsEveryBit ==
    last.op = "negate" =>
        /\ \A i \in InRange : Bit(bits, i) = ~Bit(last.pre, i)
        /\ BitSet_negate(S, bits) = last.pre
        /\ last.pre = BitStoreConst_EMPTY(S) =>
              bits = BitStoreConst_FULL(S) /\ BitSet_is_full(S, bits)
        /\ last.pre = BitStoreConst_FULL(S) =>
              bits = BitStoreConst_EMPTY(S) /\ BitSet_is_empty(S, bits)

\* a negate() of an array of arrays whose elements differ from one another
C13_Witness ==
    /\ last.op = "negate"
    /\ S = <<ArrayN, ArrayN>>
    /\ last.pre[1] # last.pre[ArrayN]
    /\ last.pre[ArrayN][1] # last.pre[ArrayN][ArrayN]
    /\ Ones(bits) \notin {{}, InRange}

\* C14: every bit of EMPTY is off and every bit of FULL is on, for u8 and
\* for arrays; count_ones is 0 on EMPTY and BITS on FULL; is_empty(EMPTY)
\* and is_full(FULL) hold; BitSet::new(), empty() and default() build an
\* empty set and BitSet::full() a full one.
C14_EmptyAndFull ==
    /\ \A i \in InRange :
          ~Bit(BitStoreConst_EMPTY(S), i) /\ Bit(BitStoreConst_FULL(S), i)
    /\ BitStore_count_ones(S, BitStoreConst_EMPTY(S)) = 0
    /\ BitStore_count_ones(S, BitStoreConst_FULL(S)) = BITS(S)
    /\ BitStore_is_empty(S, BitStoreConst_EMPTY(S))
    /\ BitStore_is_full(S, BitStoreConst_FULL(S))
    /\ last.op \in {"new", "empty", "default"} =>
          /\ Ones(bits) = {}
          /\ BitSet_is_empty(S, bits)
          /\ bits = BitStoreConst_EMPTY(S)
    /\ last.op = "full" =>
          /\ Ones(bits) = InRange
          /\ BitSet_is_full(S, bits)
          /\ bits = BitStoreConst_FULL(S)

\* BitSet::full() over an array of arrays, with no call made on it yet
C14_Witness ==
    /\ last.op = "full"
    /\ steps = 0
    /\ S = <<ArrayN, ArrayN>>
    /\ BitStore_count_ones(S, bits) = BITS(S)

\* C15: union, intersection, difference, symmetric_difference and negation
\* return what union_with, intersect_with, difference_with,
\* symmetric_difference_with and negate leave in a copy of the receiver, and
\* leave the receiver as it was; -a, a & b, a | b, a ^ b and a - b return
\* the same values, and a &= b, a |= b, a ^= b and a -= b leave them in a.
C15_PureMatchesInPlace ==
    /\ last.op \in {"union", "bitor"} =>
          /\ last.ret = Some(BitSet_union_with(S, last.pre, last.other))
          /\ bits = last.pre
    /\ last.op \in {"intersection", "bitand"} =>
          /\ last.ret = Some(BitSet_intersect_with(S, last.pre, last.other))
          /\ bits = last.pre
    /\ last.op \in {"difference", "sub"} =>
          /\ last.ret = Some(BitSet_difference_with(S, last.pre, last.other))
          /\ bits = last.pre
    /\ last.op \in {"symmetric_difference", "bitxor"} =>
          /\ last.ret =
                Some(BitSet_symmetric_difference_with(S, last.pre, last.other))
          /\ bits = last.pre
    /\ last.op \in {"negation", "neg"} =>
          /\ last.ret = Some(BitSet_negate(S, last.pre))
          /\ bits = last.pre
    /\ last.op = "bitor_assign" =>
          bits = BitSet_union_with(S, last.pre, last.other)
    /\ last.op = "bitand_assign" =>
          bits = BitSet_intersect_with(S, last.pre, last.other)
    /\ last.op = "sub_assign" =>
          bits = BitSet_difference_with(S, last.pre, last.other)
    /\ last.op = "bitxor_assign" =>
          bits = BitSet_symmetric_difference_with(S, last.pre, last.other)

\* a ^ b on two arrays that overlap in part: the result is neither operand,
\* nor their union
C15_Witness ==
    /\ last.op = "bitxor"
    /\ S # <<>>
    /\ last.ret \notin {Some(last.pre), Some(last.other),
                         Some(BitSet_union_with(S, last.pre, last.other))}
    /\ Ones(last.pre) \cap Ones(last.other) # {}
    /\ bits = last.pre

\* the text the last call wrote, when that call was a formatter
Formatted == last.op \in {"fmt_binary", "fmt_debug"}

Out == last.ret[1]

\* bit b is written after a separator
Separated(b) == (b + 1) % 4 = 0

\* the number of characters written before the digit of bit b
Before(b) ==
    2 + (BITS(S) - 1 - b) + Cardinality({c \in b .. BITS(S) - 1 : Separated(c)})

\* the positions of the underscores in the text
Underscores == {k \in 1 .. Len(Out) : Out[k] = "_"}

\* C16: the binary and the debug formatter write "0b" and then, for b from
\* BITS - 1 down to 0, an underscore when (b + 1) % 4 = 0 followed by '1'
\* when bit b is on and '0' when it is off, and nothing else; 0u8 gives
\* "0b_0000_0000", the full u8 "0b_1111_1111", and the [u8; 2] with the
\* bits 2 and 12 on "0b_0001_0000_0000_0100".
C16_BinaryText ==
    Formatted =>
        /\ Len(Out) = 2 + BITS(S) + Cardinality({c \in InRange : Separated(c)})
        /\ Out[1] = "0" /\ Out[2] = "b"
        /\ \A b \in InRange :
              /\ Out[Before(b) + 1] = (IF Bit(last.pre, b) THEN "1" ELSE "0")
              /\ Separated(b) => Out[Before(b)] = "_"
        /\ (S = <<>> /\ last.pre = uint_EMPTY) =>
              Out = <<"0", "b", "_", "0", "0", "0", "0", "_", "0", "0", "0", "0">>
        /\ (S = <<>> /\ last.pre = uint_FULL) =>
              Out = <<"0", "b", "_", "1", "1", "1", "1", "_", "1", "1", "1", "1">>
        /\ (S = <<ArrayN>> /\ Ones(last.pre) = {2, 12}) =>
              Out = <<"0", "b", "_", "0", "0", "0", "1", "_", "0", "0", "0", "0",
                      "_", "0", "0", "0", "0", "_", "0", "1", "0", "0">>

\* the binary formatter wrote the array with the bits 2 and 12 on
C16_Witness ==
    /\ last.op = "fmt_binary"
    /\ S = <<ArrayN>>
    /\ last.pre = FmtSample
    /\ Ones(last.pre) = {2, 12}
    /\ Len(Out) > BITS(S)

\* C17 as it was claimed: each underscore of the text has a digit on both
\* sides, none follows the prefix directly, and the text of an 8-bit value
\* has one underscore.
C17_AsClaimed ==
    Formatted =>
        /\ \A k \in Underscores :
              /\ k > 2 /\ k < Len(Out)
              /\ Out[k - 1] \in {"0", "1"}
              /\ Out[k + 1] \in {"0", "1"}
        /\ S = <<>> => Cardinality(Underscores) = 1

\* C17: in the text of the formatter, for the storage widths that are
\* multiples of 4, each underscore is followed by four digits and then by
\* an underscore or the end of the text; the first underscore follows the
\* prefix "0b" directly, every other one has a digit before it, and none
\* follows the least significant digit; there are BITS / 4 underscores, so
\* an 8-bit value shows two groups of 4 digits, each after an underscore.
C17_SeparatorLeadsEachGroup ==
    (Formatted /\ BITS(S) % 4 = 0) =>
        /\ 3 \in Underscores
        /\ Out[Len(Out)] \in {"0", "1"}
        /\ \A k \in Underscores :
              /\ k + 4 <= Len(Out)
              /\ \A d \in 1 .. 4 : Out[k + d] \in {"0", "1"}
              /\ k + 4 = Len(Out) \/ Out[k + 5] = "_"
              /\ k = 3 \/ Out[k - 1] \in {"0", "1"}
        /\ Cardinality(Underscores) = BITS(S) \div 4
        /\ S = <<>> => Underscores = {3, 8}

\* the debug formatter wrote a u8 that is neither empty nor full
C17_Witness ==
    /\ last.op = "fmt_debug"
    /\ S = <<>>
    /\ Ones(last.pre) \notin {{}, InRange}
    /\ Out[3] = "_"
    /\ Cardinality(Underscores) = 2

\* C18: is_empty() is true exactly when count_ones() is 0 and is_full()
\* exactly when count_ones() is BITS: for the integer, which overrides both,
\* for arrays and for the pointer wrappers, which take the default bodies,
\* and for BitSet::is_empty, BitSet::is_full and BitSet::any, any() being
\* the opposite of is_empty().
C18_EmptinessMatchesCount ==
    /\ BitStore_is_empty(S, bits) <=> BitStore_count_ones(S, bits) = 0
    /\ BitStore_is_full(S, bits) <=> BitStore_count_ones(S, bits) = BITS(S)
    /\ ptr_is_empty(S, bits) <=> BitStore_count_ones(S, bits) = 0
    /\ ptr_is_full(S, bits) <=> BitStore_count_ones(S, bits) = BITS(S)
    /\ BitSet_any(S, bits) <=> ~BitSet_is_empty(S, bits)
    /\ last.op \in {"is_empty", "wrapped_is_empty"} =>
          last.ret = Some(BitStore_count_ones(S, last.pre) = 0)
    /\ last.op \in {"is_full", "wrapped_is_full"} =>
          last.ret = Some(BitStore_count_ones(S, last.pre) = BITS(S))
    /\ last.op = "any" =>
          last.ret = Some(BitStore_count_ones(S, last.pre) # 0)
    /\ (last.op \in {"is_empty", "is_full"} /\ S = <<>>) =>
          \A v \in 0 .. UintMax :
              /\ uint_is_empty(v) <=> uint_count_ones(v) = 0
              /\ uint_is_full(v) <=> uint_count_ones(v) = U8_BITS

\* is_full() said yes of a full u8
C18_Witness ==
    /\ last.op = "is_full"
    /\ S = <<>>
    /\ last.ret = Some(TRUE)
    /\ BitStore_count_ones(S, bits) = U8_BITS

\* the calls that take an index and do not test it against BITS
UncheckedCalls ==
    {"get_unchecked", "set_unchecked", "unset_unchecked", "change_unchecked",
     "raw_get", "raw_set", "raw_unset"}

====
